---- MODULE Spec2Model ----
(***************************************************************************)
(* Model of lib/layers.py: the convolution / attention / encoder / decoder *)
(* / ASPP blocks of the vocal-remover network.                             *)
(*                                                                         *)
(* A tensor is abstracted to its shape (b, c, h, w), an abstract content   *)
(* value v (a small number that every operator mixes its operands into,    *)
(* so that "same data" and "different data" can be told apart) and src,    *)
(* the set of call arguments whose data flowed into it.                    *)
(***************************************************************************)
EXTENDS Integers, Sequences, FiniteSets, TLC

VARIABLES pc, last, mods, probe, stack, cur, input

vars == <<pc, last, mods, probe, stack, cur, input>>

(***************************************************************************)
(* Bounds of the model.                                                    *)
(***************************************************************************)
MaxHW == 4
MaxVal == 1
MaxDepth == 3

Values == 0..MaxVal
Dims == 1..MaxHW
Batches == {1, 2}
Chans == {1, 2}
KSizes == {1, 3, 5}
Pads == {0, 1, 2}
Strides == {1, 2, 3}
Dilations == {1, 2}

(***************************************************************************)
(* Tensors, errors, None.                                                  *)
(***************************************************************************)
Err == [err |-> TRUE]
IsErr(t) == "err" \in DOMAIN t

NoneT == [none |-> TRUE]
IsNone(t) == "none" \in DOMAIN t

None == -1

Tensor(b, c, h, w, v, src) ==
    [b |-> b, c |-> c, h |-> h, w |-> w, v |-> v, src |-> src]

Shape(t) == <<t.b, t.c, t.h, t.w>>

\* Content of the result of an operator applied to content a with operand b.
Mix(a, b) == (a + b + 1) % (MaxVal + 1)

(***************************************************************************)
(* nn.Conv2d                                                               *)
(***************************************************************************)
\* Constructor.  in_channels % groups is evaluated by the constructor, so an
\* in_channels of None raises there; so do channel counts groups does not divide.
Conv2d(nin, nout, ksize, stride, pad, dilation, groups) ==
    IF nin = None THEN Err
    ELSE IF nin % groups # 0 \/ nout % groups # 0 THEN Err
    ELSE [nin |-> nin, nout |-> nout, ksize |-> ksize, stride |-> stride,
          pad |-> pad, dilation |-> dilation, groups |-> groups, w |-> 0]

ConvOut_NoDilation(n, ksize, stride, pad, dilation) ==
    LET num == n + 2 * pad - (ksize - 1) - 1
    IN  IF num < 0 THEN 0 ELSE (num \div stride) + 1

\* Output length of a convolution along one spatial dimension; 0 when the
\* padded input is smaller than the dilated kernel (the call raises).
ConvOut(n, ksize, stride, pad, dilation) ==
    LET num == n + 2 * pad - dilation * (ksize - 1) - 1
    IN  IF num < 0 THEN 0 ELSE (num \div stride) + 1

Conv2d_call(c, x) ==
    IF IsErr(x) THEN Err
    ELSE IF x.c # c.nin THEN Err
    ELSE LET h == ConvOut(x.h, c.ksize, c.stride, c.pad, c.dilation)
             w == ConvOut(x.w, c.ksize, c.stride, c.pad, c.dilation)
         IN  IF h < 1 \/ w < 1 THEN Err
             ELSE Tensor(x.b, c.nout, h, w, Mix(x.v, c.w), x.src)

(***************************************************************************)
(* nn.BatchNorm2d: in training mode it normalises with the statistics of   *)
(* the batch and folds them into the running statistics; in inference mode *)
(* it normalises with the running statistics and leaves them alone.        *)
(***************************************************************************)
BatchNorm2d(nf) == [nf |-> nf, running |-> 0]

BatchNorm2d_call_AlwaysTrack(bn, training, x) ==
    IF IsErr(x) THEN [out |-> Err, bn |-> bn]
    ELSE IF x.c # bn.nf THEN [out |-> Err, bn |-> bn]
    ELSE [out |-> [x EXCEPT !.v = Mix(x.v, IF training THEN x.v ELSE bn.running)],
          bn |-> [bn EXCEPT !.running = Mix(bn.running, x.v)]]

BatchNorm2d_call(bn, training, x) ==
    IF IsErr(x) THEN [out |-> Err, bn |-> bn]
    ELSE IF x.c # bn.nf THEN [out |-> Err, bn |-> bn]
    ELSE IF training
         THEN [out |-> [x EXCEPT !.v = Mix(x.v, x.v)],
               bn |-> [bn EXCEPT !.running = Mix(bn.running, x.v)]]
         ELSE [out |-> [x EXCEPT !.v = Mix(x.v, bn.running)], bn |-> bn]

\* Pointwise activation: the shape is kept.
Activ(activ, x) ==
    IF IsErr(x) THEN Err
    ELSE [x EXCEPT !.v = Mix(x.v, IF activ = "ReLU" THEN 0 ELSE 1)]

(***************************************************************************)
(* Conv2DBNActiv                                                           *)
(***************************************************************************)
Conv2DBNActiv(nin, nout, ksize, stride, pad, dilation, activ) ==
    [kind |-> "Conv2DBNActiv",
     training |-> TRUE,
     conv |-> Conv2d(nin, nout, ksize, stride, pad, dilation, 1),
     bn |-> BatchNorm2d(nout),
     activ |-> activ]

Conv2DBNActiv_call(m, x) ==
    LET c == Conv2d_call(m.conv, x)
        b == BatchNorm2d_call(m.bn, m.training, c)
    IN  [out |-> Activ(m.activ, b.out), m |-> [m EXCEPT !.bn = b.bn]]

\* nn.Module.train(mode) / eval(): sets the flag the normalisation and the
\* dropout layers read, on the block and on every block it owns.
SubModules == {"conv", "conv1", "conv2", "conv3", "conv4", "conv5", "bottleneck"}

RECURSIVE SetTraining(_, _)
SetTraining(m, mode) ==
    [f \in DOMAIN m |->
        IF f = "training" THEN mode
        ELSE IF f \in SubModules /\ "training" \in DOMAIN m[f]
             THEN SetTraining(m[f], mode)
             ELSE m[f]]

(***************************************************************************)
(* Tensor operators of the framework used by the blocks.                   *)
(***************************************************************************)
interpolate_scale_Same(x, s) == x

\* F.interpolate(x, scale_factor=s, mode='bilinear'): each spatial dimension
\* becomes floor(n * s).
interpolate_scale(x, s) ==
    IF IsErr(x) THEN Err ELSE [x EXCEPT !.h = x.h * s, !.w = x.w * s]

\* F.interpolate(x, size=(h, w), mode='bilinear').
interpolate_size(x, h, w) ==
    IF IsErr(x) THEN Err ELSE [x EXCEPT !.h = h, !.w = w]

\* nn.AdaptiveAvgPool2d((1, 1)).
AdaptiveAvgPool2d(x) ==
    IF IsErr(x) THEN Err ELSE [x EXCEPT !.h = 1, !.w = 1]

\* torch.cat([a, b], dim=1): every dimension but the channels must agree.
cat2(a, b) ==
    IF IsErr(a) \/ IsErr(b) THEN Err
    ELSE IF a.b # b.b \/ a.h # b.h \/ a.w # b.w THEN Err
    ELSE Tensor(a.b, a.c + b.c, a.h, a.w, Mix(a.v, b.v), a.src \cup b.src)

RECURSIVE cat(_)
cat(ts) ==
    IF Len(ts) = 1 THEN ts[1]
    ELSE cat2(cat(SubSeq(ts, 1, Len(ts) - 1)), ts[Len(ts)])

Dropout2d_AnyMode(training, mask, x) ==
    IF IsErr(x) THEN Err
    ELSE [x EXCEPT !.v = (x.v + mask) % (MaxVal + 1)]

\* nn.Dropout2d(0.1): in training mode zeroes the channels a random mask
\* picks; the identity in inference mode.
Dropout2d(training, mask, x) ==
    IF IsErr(x) THEN Err
    ELSE IF training THEN [x EXCEPT !.v = (x.v + mask) % (MaxVal + 1)]
    ELSE x

\* spec_utils.crop_center(x, ref): x cropped symmetrically to ref's spatial
\* dimensions; x must be at least as large as ref.
crop_center(x, ref) ==
    IF IsErr(x) \/ IsErr(ref) THEN Err
    ELSE IF x.h < ref.h \/ x.w < ref.w THEN Err
    ELSE [x EXCEPT !.h = ref.h, !.w = ref.w]

(***************************************************************************)
(* SeperableConv2DBNActiv                                                  *)
(***************************************************************************)
SeperableConv2DBNActiv(nin, nout, ksize, stride, pad, dilation, activ) ==
    [kind |-> "SeperableConv2DBNActiv",
     training |-> TRUE,
     depthwise |-> Conv2d(nin, nin, ksize, stride, pad, dilation, nin),
     pointwise |-> Conv2d(nin, nout, 1, 1, 0, 1, 1),
     bn |-> BatchNorm2d(nout),
     activ |-> activ]

SeperableConv2DBNActiv_call(m, x) ==
    LET d == Conv2d_call(m.depthwise, x)
        p == Conv2d_call(m.pointwise, d)
        b == BatchNorm2d_call(m.bn, m.training, p)
    IN  [out |-> Activ(m.activ, b.out), m |-> [m EXCEPT !.bn = b.bn]]

(***************************************************************************)
(* Encoder                                                                 *)
(***************************************************************************)
Encoder_Conv1Strided(nin, nout, ksize, stride, pad) ==
    [kind |-> "Encoder",
     training |-> TRUE,
     conv1 |-> Conv2DBNActiv(nin, nout, ksize, stride, pad, 1, "LeakyReLU"),
     conv2 |-> Conv2DBNActiv(nout, nout, ksize, 1, pad, 1, "LeakyReLU")]

Encoder(nin, nout, ksize, stride, pad) ==
    [kind |-> "Encoder",
     training |-> TRUE,
     conv1 |-> Conv2DBNActiv(nin, nout, ksize, 1, pad, 1, "LeakyReLU"),
     conv2 |-> Conv2DBNActiv(nout, nout, ksize, stride, pad, 1, "LeakyReLU")]

\* Returns (h, skip); out is h, or Err when the call raised.
Encoder_call(m, x) ==
    LET r1 == Conv2DBNActiv_call(m.conv1, x)
        r2 == Conv2DBNActiv_call(m.conv2, r1.out)
    IN  [out |-> r2.out, skip |-> r1.out,
         m |-> [m EXCEPT !.conv1 = r1.m, !.conv2 = r2.m]]

(***************************************************************************)
(* Decoder                                                                 *)
(***************************************************************************)
\* The stride argument is accepted and not used: the convolution has stride 1.
Decoder(nin, nout, ksize, stride, pad, dropout) ==
    [kind |-> "Decoder",
     training |-> TRUE,
     conv |-> Conv2DBNActiv(nin, nout, ksize, 1, pad, 1, "ReLU"),
     dropout |-> dropout]

Decoder_call_NoCrop(m, x, skip, mask) ==
    LET up == interpolate_scale(x, 2)
        r == Conv2DBNActiv_call(m.conv, up)
        h == IF m.dropout THEN Dropout2d(m.training, mask, r.out) ELSE r.out
    IN  [out |-> h, up |-> up, convin |-> up, m |-> [m EXCEPT !.conv = r.m]]

Decoder_call(m, x, skip, mask) ==
    LET up == interpolate_scale(x, 2)
        cropped == IF IsNone(skip) THEN up ELSE crop_center(up, skip)
        r == Conv2DBNActiv_call(m.conv, cropped)
        h == IF m.dropout THEN Dropout2d(m.training, mask, r.out) ELSE r.out
    IN  [out |-> h, up |-> up, convin |-> cropped, m |-> [m EXCEPT !.conv = r.m]]

(***************************************************************************)
(* DecoderV2                                                               *)
(***************************************************************************)
DecoderV2(nin, nout, ksize, stride, pad, dropout) ==
    [kind |-> "DecoderV2",
     training |-> TRUE,
     conv1 |-> Conv2DBNActiv(nin, nout, 1, 1, 0, 1, "ReLU"),
     conv2 |-> Conv2DBNActiv(nout, nout, ksize, 1, pad, 1, "ReLU"),
     dropout |-> dropout]

DecoderV2_call_UpsampleFirst(m, x, skip, mask) ==
    LET up == interpolate_scale(x, 2)
        merged == IF IsNone(skip) THEN up ELSE cat(<<up, skip>>)
        r1 == Conv2DBNActiv_call(m.conv1, merged)
        r2 == Conv2DBNActiv_call(m.conv2, r1.out)
        h == IF m.dropout THEN Dropout2d(m.training, mask, r2.out) ELSE r2.out
    IN  [out |-> h, convin |-> merged, c1 |-> r1.out, up |-> up,
         m |-> [m EXCEPT !.conv1 = r1.m, !.conv2 = r2.m]]

DecoderV2_call(m, x, skip, mask) ==
    LET merged == IF IsNone(skip) THEN x ELSE cat(<<x, skip>>)
        r1 == Conv2DBNActiv_call(m.conv1, merged)
        up == interpolate_scale(r1.out, 2)
        r2 == Conv2DBNActiv_call(m.conv2, up)
        h == IF m.dropout THEN Dropout2d(m.training, mask, r2.out) ELSE r2.out
    IN  [out |-> h, convin |-> merged, c1 |-> r1.out, up |-> up,
         m |-> [m EXCEPT !.conv1 = r1.m, !.conv2 = r2.m]]

(***************************************************************************)
(* ASPPModule                                                              *)
(***************************************************************************)
ASPPModule_FourBranches(nin, dilations) ==
    [kind |-> "ASPPModule",
     training |-> TRUE,
     conv1 |-> Conv2DBNActiv(nin, nin, 1, 1, 0, 1, "LeakyReLU"),
     conv2 |-> Conv2DBNActiv(nin, nin, 1, 1, 0, 1, "LeakyReLU"),
     conv3 |-> SeperableConv2DBNActiv(nin, nin, 3, 1, dilations[1], dilations[1],
                                      "LeakyReLU"),
     conv4 |-> SeperableConv2DBNActiv(nin, nin, 3, 1, dilations[2], dilations[2],
                                      "LeakyReLU"),
     conv5 |-> SeperableConv2DBNActiv(nin, nin, 3, 1, dilations[3], dilations[3],
                                      "LeakyReLU"),
     bottleneck |-> Conv2DBNActiv(nin * 4, nin, 1, 1, 0, 1, "LeakyReLU")]

\* dilations is the tuple (dilations[0], dilations[1], dilations[2]) of the
\* source, indexed from 1 here.
ASPPModule(nin, dilations) ==
    [kind |-> "ASPPModule",
     training |-> TRUE,
     conv1 |-> Conv2DBNActiv(nin, nin, 1, 1, 0, 1, "LeakyReLU"),
     conv2 |-> Conv2DBNActiv(nin, nin, 1, 1, 0, 1, "LeakyReLU"),
     conv3 |-> SeperableConv2DBNActiv(nin, nin, 3, 1, dilations[1], dilations[1],
                                      "LeakyReLU"),
     conv4 |-> SeperableConv2DBNActiv(nin, nin, 3, 1, dilations[2], dilations[2],
                                      "LeakyReLU"),
     conv5 |-> SeperableConv2DBNActiv(nin, nin, 3, 1, dilations[3], dilations[3],
                                      "LeakyReLU"),
     bottleneck |-> Conv2DBNActiv(nin * 5, nin, 1, 1, 0, 1, "LeakyReLU")]

\* The statement of forward that follows prev: it runs on x only when prev
\* returned.
After(prev, x) == IF IsErr(prev) THEN Err ELSE x

\* The concatenation of the five branch outputs, the bottleneck and its
\* dropout; ms are the five branch blocks after their calls.
ASPPModule_bottleneck(m, mask, ms, feats) ==
    LET out == cat(feats)
        rb == Conv2DBNActiv_call(m.bottleneck, out)
    IN  [out |-> Dropout2d(m.training, mask, rb.out), feats |-> feats,
         catted |-> out,
         m |-> [m EXCEPT !.conv1 = ms[1], !.conv2 = ms[2], !.conv3 = ms[3],
                         !.conv4 = ms[4], !.conv5 = ms[5], !.bottleneck = rb.m]]

ASPPModule_forward(m, x, mask) ==
    LET r1 == Conv2DBNActiv_call(m.conv1, AdaptiveAvgPool2d(x))
        r2 == Conv2DBNActiv_call(m.conv2, After(r1.out, x))
        r3 == SeperableConv2DBNActiv_call(m.conv3, After(r2.out, x))
        r4 == SeperableConv2DBNActiv_call(m.conv4, After(r3.out, x))
        r5 == SeperableConv2DBNActiv_call(m.conv5, After(r4.out, x))
    IN  ASPPModule_bottleneck(m, mask, <<r1.m, r2.m, r3.m, r4.m, r5.m>>,
                              <<interpolate_size(r1.out, x.h, x.w),
                                r2.out, r3.out, r4.out, r5.out>>)

(***************************************************************************)
(* CBAM                                                                    *)
(***************************************************************************)
\* nn.Linear(nin, nout)
Linear(nin, nout) == [nin |-> nin, nout |-> nout, w |-> 0]

\* The constructor raises when one of the layers it builds raises.
CBAM(ch, ratio) ==
    LET conv == Conv2d(None, 1, 3, 1, 1, 1, 1)
    IN  IF IsErr(conv) THEN Err
        ELSE [kind |-> "CBAM",
              training |-> TRUE,
              sqz |-> Linear(ch, ch \div ratio),
              ext |-> Linear(ch \div ratio, ch),
              conv |-> conv]

\* x.max(dim): torch's max reduces one dimension; a tuple of dimensions raises.
TensorMax(x, ndims) == IF IsErr(x) \/ ndims # 1 THEN Err ELSE x

\* No CBAM is ever built (m is Err); were one built, the first x.max(dim=(2, 3))
\* would raise.
CBAM_call(m, x) ==
    IF IsErr(m) THEN Err
    ELSE LET gmp == TensorMax(x, 2)
         IN  IF IsErr(gmp) \/ x.c # m.sqz.nin THEN Err
             ELSE LET maps == Tensor(x.b, 2, x.h, x.w, Mix(x.v, x.v), x.src)
                      h == Conv2d_call(m.conv, maps)
                  IN  IF IsErr(h) THEN Err ELSE [x EXCEPT !.v = Mix(x.v, h.v)]

(***************************************************************************)
(* Inputs.                                                               *)
(***************************************************************************)
Inputs(name, hs, ws, vs) ==
    { Tensor(b, c, h, w, v, {name}) :
        b \in Batches, c \in Chans, h \in hs, w \in ws, v \in vs }

NoCall == [kind |-> "none"]

InitIdle ==
    /\ pc = "idle"
    /\ last = NoCall
    /\ mods = << >>
    /\ probe = NoCall
    /\ stack = << >>
    /\ cur = NoneT
    /\ input = NoneT

(***************************************************************************)
(* One call of a freshly built block: the block is constructed, optionally *)
(* put in inference mode, and called once.  last records the call.         *)
(***************************************************************************)
Call(kind, args, m, x, skip, mask, res) ==
    [kind |-> kind, args |-> args, m |-> m, x |-> x, skip |-> skip,
     mask |-> mask, res |-> res]

IsCall(kind) == pc = "done" /\ last.kind = kind

Returned == ~IsErr(last.res.out)

DoConv2DBNActiv ==
    /\ pc = "idle"
    /\ \E nin \in Chans, nout \in Chans, ksize \in KSizes, stride \in Strides,
          pad \in Pads, dilation \in Dilations, mode \in BOOLEAN,
          x \in Inputs("x", Dims, Dims, {0}) :
          LET m == SetTraining(
                     Conv2DBNActiv(nin, nout, ksize, stride, pad, dilation, "ReLU"),
                     mode)
          IN  last' = Call("Conv2DBNActiv",
                           [nin |-> nin, nout |-> nout, ksize |-> ksize,
                            stride |-> stride, pad |-> pad, dilation |-> dilation],
                           m, x, NoneT, 0, Conv2DBNActiv_call(m, x))
    /\ pc' = "done"
    /\ UNCHANGED <<mods, probe, stack, cur, input>>

DoSeperableConv2DBNActiv ==
    /\ pc = "idle"
    /\ \E nin \in Chans, nout \in Chans, ksize \in KSizes, stride \in Strides,
          pad \in Pads, dilation \in Dilations, mode \in BOOLEAN,
          x \in Inputs("x", Dims, Dims, {0}) :
          LET m == SetTraining(
                     SeperableConv2DBNActiv(nin, nout, ksize, stride, pad, dilation,
                                            "ReLU"),
                     mode)
          IN  last' = Call("SeperableConv2DBNActiv",
                           [nin |-> nin, nout |-> nout, ksize |-> ksize,
                            stride |-> stride, pad |-> pad, dilation |-> dilation],
                           m, x, NoneT, 0,
                           SeperableConv2DBNActiv_call(m, x))
    /\ pc' = "done"
    /\ UNCHANGED <<mods, probe, stack, cur, input>>

NextConv == DoConv2DBNActiv \/ DoSeperableConv2DBNActiv

SpecConv == InitIdle /\ [][NextConv]_vars

\* The constructor arguments and input of the scenario of the specification:
\* Encoder(32, 64, stride=2) on a 1x32x64x64 input.
EncoderArgs ==
    (Chans \X Chans \X KSizes \X Strides \X Pads) \cup {<<32, 64, 3, 2, 1>>}

EncoderInputs ==
    Inputs("x", Dims, Dims, {0}) \cup {Tensor(1, 32, 64, 64, 0, {"x"})}

DoEncoder ==
    /\ pc = "idle"
    /\ \E a \in EncoderArgs, mode \in BOOLEAN, x \in EncoderInputs :
          LET m == SetTraining(Encoder(a[1], a[2], a[3], a[4], a[5]), mode)
          IN  last' = Call("Encoder",
                           [nin |-> a[1], nout |-> a[2], ksize |-> a[3],
                            stride |-> a[4], pad |-> a[5]],
                           m, x, NoneT, 0, Encoder_call(m, x))
    /\ pc' = "done"
    /\ UNCHANGED <<mods, probe, stack, cur, input>>

SpecEncoder == InitIdle /\ [][DoEncoder]_vars

\* A skip of any size from 1 up to twice the largest input.
SkipDims == 1..(2 * MaxHW)

Skips(cs) ==
    { Tensor(b, c, h, w, 0, {"skip"}) :
        b \in {1}, c \in cs, h \in SkipDims, w \in SkipDims }

\* The mask is drawn only where a dropout layer reads it.
Masks(dropout, mode) == IF dropout /\ mode THEN Values ELSE {0}

DoDecoder ==
    /\ pc = "idle"
    /\ \E nin \in Chans, nout \in {2}, ksize \in KSizes, pad \in Pads,
          dropout \in BOOLEAN, mode \in BOOLEAN,
          x \in { t \in Inputs("x", Dims, Dims, {0}) : t.b = 1 },
          skip \in Skips({1}) \cup {NoneT} :
          \E mask \in Masks(dropout, mode) :
             LET m == SetTraining(Decoder(nin, nout, ksize, 1, pad, dropout), mode)
             IN  last' = Call("Decoder",
                              [nin |-> nin, nout |-> nout, ksize |-> ksize,
                               pad |-> pad, dropout |-> dropout],
                              m, x, skip, mask,
                              Decoder_call(m, x, skip, mask))
    /\ pc' = "done"
    /\ UNCHANGED <<mods, probe, stack, cur, input>>

SpecDecoder == InitIdle /\ [][DoDecoder]_vars

DoDecoderV2 ==
    /\ pc = "idle"
    /\ \E nin \in {2, 3}, nout \in {2}, ksize \in KSizes, pad \in Pads,
          dropout \in BOOLEAN,
          x \in Inputs("x", Dims, Dims, {0}),
          skip \in { t \in Inputs("skip", Dims, Dims, {0}) : t.c = 1 }
                     \cup {NoneT} :
          \E mask \in Masks(dropout, TRUE) :
             LET m == DecoderV2(nin, nout, ksize, 1, pad, dropout)
             IN  last' = Call("DecoderV2",
                              [nin |-> nin, nout |-> nout, ksize |-> ksize,
                               pad |-> pad, dropout |-> dropout],
                              m, x, skip, mask,
                              DecoderV2_call(m, x, skip, mask))
    /\ pc' = "done"
    /\ UNCHANGED <<mods, probe, stack, cur, input>>

SpecDecoderV2 == InitIdle /\ [][DoDecoderV2]_vars

\* Dilation triples, the default (4, 8, 16) among them.
DilationTuples ==
    ({1, 2, 4} \X {1, 2, 8} \X {1, 3, 16})

DoASPPModule ==
    /\ pc = "idle"
    /\ \E nin \in Chans, dilations \in DilationTuples, mode \in BOOLEAN,
          x \in Inputs("x", Dims, Dims, {0}) :
          \E mask \in Masks(TRUE, mode) :
             LET m == SetTraining(ASPPModule(nin, dilations), mode)
             IN  last' = Call("ASPPModule", [nin |-> nin, dilations |-> dilations],
                              m, x, NoneT, mask,
                              ASPPModule_forward(m, x, mask))
    /\ pc' = "done"
    /\ UNCHANGED <<mods, probe, stack, cur, input>>

SpecASPP == InitIdle /\ [][DoASPPModule]_vars

DoCBAM ==
    /\ pc = "idle"
    /\ \E ch \in {1, 2, 16, 32}, ratio \in {1, 2, 16},
          x \in Inputs("x", Dims, Dims, {0}) \cup
                { Tensor(1, c, h, h, 0, {"x"}) : c \in {16, 32}, h \in Dims } :
          LET m == CBAM(ch, ratio)
          IN  last' = Call("CBAM", [ch |-> ch, ratio |-> ratio], m, x, NoneT, 0,
                           [out |-> CBAM_call(m, x)])
    /\ pc' = "done"
    /\ UNCHANGED <<mods, probe, stack, cur, input>>

SpecCBAM == InitIdle /\ [][DoCBAM]_vars

(***************************************************************************)
(* A session: two constructed blocks are called again and again, in        *)
(* training or in inference mode.  last is the latest call; probe is an    *)
(* earlier inference-mode call since which no training-mode call was made  *)
(* on its block.                                                           *)
(***************************************************************************)
Slots == {1, 2}

\* One block of every class that can be built (CBAM's constructor raises).
SessionModules ==
    { m \in { Conv2DBNActiv(1, 1, 3, 1, 1, 1, "ReLU"),
              SeperableConv2DBNActiv(1, 1, 3, 1, 1, 1, "ReLU"),
              Encoder(1, 1, 3, 2, 1),
              Decoder(1, 1, 3, 1, 1, TRUE),
              DecoderV2(2, 1, 3, 1, 1, TRUE),
              ASPPModule(1, <<4, 8, 16>>),
              CBAM(16, 16) } : ~IsErr(m) }

SessionX == { Tensor(1, 1, 2, 2, v, {"x"}) : v \in {0, MaxVal} }

SessionSkips(m) ==
    IF m.kind \in {"Decoder", "DecoderV2"}
    THEN {Tensor(1, 1, 2, 2, 0, {"skip"}), NoneT}
    ELSE {NoneT}

HasDropout(m) ==
    \/ m.kind = "ASPPModule"
    \/ m.kind \in {"Decoder", "DecoderV2"} /\ m.dropout

\* block(x) or block(x, skip): the tensors the call returns (Err when it
\* raises) and the block after the call.
CallModule(m, x, skip, mask) ==
    CASE m.kind = "Conv2DBNActiv" ->
            LET r == Conv2DBNActiv_call(m, x) IN [out |-> <<r.out>>, m |-> r.m]
      [] m.kind = "SeperableConv2DBNActiv" ->
            LET r == SeperableConv2DBNActiv_call(m, x)
            IN  [out |-> <<r.out>>, m |-> r.m]
      [] m.kind = "Encoder" ->
            LET r == Encoder_call(m, x) IN [out |-> <<r.out, r.skip>>, m |-> r.m]
      [] m.kind = "Decoder" ->
            LET r == Decoder_call(m, x, skip, mask) IN [out |-> <<r.out>>, m |-> r.m]
      [] m.kind = "DecoderV2" ->
            LET r == DecoderV2_call(m, x, skip, mask)
            IN  [out |-> <<r.out>>, m |-> r.m]
      [] m.kind = "ASPPModule" ->
            LET r == ASPPModule_forward(m, x, mask) IN [out |-> <<r.out>>, m |-> r.m]

InitSession ==
    /\ pc = "session"
    /\ last = NoCall
    /\ mods \in { f \in [Slots -> SessionModules] : f[2].kind = "Conv2DBNActiv" }
    /\ probe = NoCall
    /\ stack = << >>
    /\ cur = NoneT
    /\ input = NoneT

SetMode(i, mode) ==
    /\ pc = "session"
    /\ mods[i].training # mode
    /\ mods' = [mods EXCEPT ![i] = SetTraining(mods[i], mode)]
    /\ UNCHANGED <<pc, last, probe, stack, cur, input>>

Forward(i) ==
    /\ pc = "session"
    /\ \E x \in SessionX, skip \in SessionSkips(mods[i]),
          mask \in Masks(HasDropout(mods[i]), TRUE) :
          LET r == CallModule(mods[i], x, skip, mask)
          IN  /\ mods' = [mods EXCEPT ![i] = r.m]
              /\ last' = [kind |-> "forward", slot |-> i,
                           training |-> mods[i].training,
                           x |-> x, skip |-> skip, out |-> r.out]
    /\ IF mods[i].training
       THEN probe' = IF probe.kind = "forward" /\ probe.slot = i
                     THEN NoCall ELSE probe
       ELSE \/ probe' = probe
            \/ /\ last.kind = "forward"
               /\ ~last.training
               /\ probe' = last
    /\ UNCHANGED <<pc, stack, cur, input>>

NextSession ==
    \E i \in Slots : \/ Forward(i)
                      \/ SetMode(i, TRUE)
                      \/ SetMode(i, FALSE)

SpecSession == InitSession /\ [][NextSession]_vars

(***************************************************************************)
(* A U-shaped chain: depth Encoders with stride 2 (default kernel size 3   *)
(* and padding 1), then as many Decoders in reverse order, each given the  *)
(* skip of the Encoder of its level.                                       *)
(***************************************************************************)
UNetDims == 1..(2 * MaxHW + 1)

InitUNet ==
    /\ pc = "down"
    /\ last = NoCall
    /\ probe = NoCall
    /\ stack = << >>
    /\ input \in { Tensor(b, 1, h, w, 0, {"x"}) :
                      b \in {1}, h \in UNetDims, w \in UNetDims }
    /\ cur = input
    /\ \E depth \in 1..MaxDepth, mode \in BOOLEAN :
          mods = [enc |-> [i \in 1..depth |->
                             SetTraining(Encoder(i, i + 1, 3, 2, 1), mode)],
                  dec |-> [i \in 1..depth |->
                             SetTraining(Decoder(i + 1, i, 3, 1, 1, FALSE), mode)]]

EncodeStep ==
    /\ pc = "down"
    /\ LET i == Len(stack) + 1
           r == Encoder_call(mods.enc[i], cur)
       IN  /\ mods' = [mods EXCEPT !.enc[i] = r.m]
           /\ stack' = Append(stack, [skip |-> r.skip, x |-> cur])
           /\ cur' = r.out
           /\ last' = [kind |-> "Encoder", level |-> i, x |-> cur, res |-> r]
           /\ pc' = IF i = Len(mods.enc) THEN "up" ELSE "down"
    /\ UNCHANGED <<probe, input>>

DecodeStep ==
    /\ pc = "up"
    /\ LET i == Len(stack)
           r == Decoder_call(mods.dec[i], cur, stack[i].skip, 0)
       IN  /\ mods' = [mods EXCEPT !.dec[i] = r.m]
           /\ stack' = SubSeq(stack, 1, i - 1)
           /\ cur' = r.out
           /\ last' = [kind |-> "Decoder", level |-> i, x |-> cur,
                        skip |-> stack[i].skip, orig |-> stack[i].x, res |-> r]
           /\ pc' = IF i = 1 THEN "done" ELSE "up"
    /\ UNCHANGED <<probe, input>>

NextUNet == EncodeStep \/ DecodeStep

SpecUNet == InitUNet /\ [][NextUNet]_vars

(***************************************************************************)
(* The whole model: any of the runs above.                                 *)
(***************************************************************************)
Init == InitIdle \/ InitSession \/ InitUNet

Next ==
    \/ NextConv
    \/ DoEncoder
    \/ DoDecoder
    \/ DoDecoderV2
    \/ DoASPPModule
    \/ DoCBAM
    \/ NextSession
    \/ NextUNet

Spec == Init /\ [][Next]_vars

EncoderAccepts(a, x) ==
    /\ x.c = a.nin
    /\ x.h + 2 * a.pad - a.ksize >= 0
    /\ x.w + 2 * a.pad - a.ksize >= 0
    /\ (x.h + 2 * a.pad - a.ksize + 1) + 2 * a.pad - a.ksize >= 0
    /\ (x.w + 2 * a.pad - a.ksize + 1) + 2 * a.pad - a.ksize >= 0

EncoderScenario ==
    /\ last.args = [nin |-> 32, nout |-> 64, ksize |-> 3, stride |-> 2, pad |-> 1]
    /\ Shape(last.x) = <<1, 32, 64, 64>>

C2_OutputHasSkipSize ==
    (IsCall("Decoder") /\ ~IsNone(last.skip) /\ Returned) =>
        /\ last.res.out.h = last.skip.h
        /\ last.res.out.w = last.skip.w

\* C2 as amended: in every Decoder call with a skip that returns, the
\* upsampled tensor (twice the input's size) is cropped to exactly the
\* skip's height and width before the convolution, and the returned tensor
\* has height and width skip + 2*pad - ksize + 1: the skip's own size
\* whenever ksize = 2*pad + 1 (as with the defaults 3 and 1).
C2_DecoderShape ==
    (IsCall("Decoder") /\ ~IsNone(last.skip) /\ Returned) =>
        LET a == last.args
            r == last.res
        IN  /\ r.up.h = 2 * last.x.h /\ r.up.w = 2 * last.x.w
            /\ r.convin.h = last.skip.h /\ r.convin.w = last.skip.w
            /\ r.out.h = last.skip.h + 2 * a.pad - a.ksize + 1
            /\ r.out.w = last.skip.w + 2 * a.pad - a.ksize + 1
            /\ (a.ksize = 2 * a.pad + 1) =>
                  (r.out.h = last.skip.h /\ r.out.w = last.skip.w)

\* A default-kernel Decoder whose upsampled input was larger than the skip in
\* one dimension by one and in the other by more has returned.
C2_Witness ==
    /\ IsCall("Decoder")
    /\ ~IsNone(last.skip)
    /\ Returned
    /\ last.args.ksize = 3 /\ last.args.pad = 1
    /\ last.res.up.h = last.skip.h + 1
    /\ last.res.up.w > last.skip.w + 1
    /\ last.res.out.h = last.skip.h

\* C8: a Decoder call with a skip merges the skip's data into the tensor that
\* reaches the convolution, which therefore has channels(x) + channels(skip)
\* channels, and into the result.
C8_DecoderMergesSkip ==
    (IsCall("Decoder") /\ ~IsNone(last.skip) /\ Returned) =>
        /\ "skip" \in last.res.convin.src
        /\ last.res.convin.c = last.x.c + last.skip.c
        /\ "skip" \in last.res.out.src

(***************************************************************************)
(* DecoderV2                                                               *)
(***************************************************************************)
\* C6: a DecoderV2 call with a skip succeeds only when x and skip have the
\* same batch and spatial dimensions and channels(x) + channels(skip) = nin
\* (a spatial mismatch is an error); the skip is concatenated at the input's
\* resolution, uncropped, and then come the 1x1 convolution, the 2x
\* upsampling and the second convolution; the output has nout channels.
C6_DecoderV2 ==
    (IsCall("DecoderV2") /\ ~IsNone(last.skip)) =>
        LET a == last.args
            x == last.x
            skip == last.skip
            r == last.res
        IN  /\ Returned =>
                  /\ x.b = skip.b /\ x.h = skip.h /\ x.w = skip.w
                  /\ x.c + skip.c = a.nin
                  /\ Shape(r.convin) = <<x.b, x.c + skip.c, x.h, x.w>>
                  /\ r.convin.src = {"x", "skip"}
                  /\ Shape(r.c1) = <<x.b, a.nout, x.h, x.w>>
                  /\ Shape(r.up) = <<x.b, a.nout, 2 * x.h, 2 * x.w>>
                  /\ Shape(r.out) = <<x.b, a.nout, 2 * x.h + 2 * a.pad - a.ksize + 1,
                                       2 * x.w + 2 * a.pad - a.ksize + 1>>
            /\ (x.h # skip.h \/ x.w # skip.w \/ x.b # skip.b) => ~Returned
            /\ (x.c + skip.c # a.nin) => ~Returned

\* A call with a skip and a 5x5 kernel with padding 1 has returned.
C6_Witness ==
    /\ IsCall("DecoderV2")
    /\ ~IsNone(last.skip)
    /\ Returned
    /\ last.args.ksize = 5 /\ last.args.pad = 1
    /\ last.x.h = 2 /\ last.x.w = 3

C3_CBAMShape ==
    (IsCall("CBAM") /\ last.x.c = last.args.ch) =>
        /\ ~IsErr(last.m)
        /\ last.m.conv.nin = 2
        /\ last.m.conv.nout = 1
        /\ Returned
        /\ Shape(last.res.out) = Shape(last.x)

(***************************************************************************)
(* Sessions: determinism and frame                                         *)
(***************************************************************************)
\* C7: an inference-mode call returns what an earlier inference-mode call of
\* the same block on the same input returned, whatever calls were made in
\* between (no training-mode call on that block among them) and whatever
\* mask its dropout layers would have drawn.
C7_Deterministic ==
    (/\ probe.kind = "forward"
     /\ last.kind = "forward"
     /\ ~last.training
     /\ last.slot = probe.slot
     /\ last.x = probe.x
     /\ last.skip = probe.skip) => last.out = probe.out

\* A Decoder with dropout, trained before, has answered the same input twice
\* in inference mode.
C7_Witness ==
    /\ probe.kind = "forward"
    /\ last.kind = "forward"
    /\ ~last.training
    /\ last.slot = probe.slot
    /\ last.x = probe.x
    /\ last.skip = probe.skip
    /\ ~IsNone(last.skip)
    /\ mods[last.slot].kind = "Decoder"
    /\ mods[last.slot].dropout
    /\ mods[last.slot].conv.bn.running # 0
    /\ ~IsErr(last.out[1])

\* A block with its running statistics and its mode flags reset: its
\* configuration and its weights.
RECURSIVE Static(_)
Static(m) ==
    [f \in DOMAIN m |->
        IF f = "training" THEN TRUE
        ELSE IF f = "bn" THEN [m[f] EXCEPT !.running = 0]
        ELSE IF f \in SubModules /\ "training" \in DOMAIN m[f] THEN Static(m[f])
        ELSE m[f]]

\* A block with its mode flags reset: its configuration, its weights and its
\* running statistics.
Frozen(m) == SetTraining(m, TRUE)

\* C9: no step changes the configuration or the weights of a block; a block
\* in inference mode keeps its running statistics; and the running statistics
\* of a block change only in a training-mode call of that very block.
C9_Frame ==
    [][\A i \in Slots :
          /\ Static(mods'[i]) = Static(mods[i])
          /\ ~mods[i].training => Frozen(mods'[i]) = Frozen(mods[i])
          /\ Frozen(mods'[i]) # Frozen(mods[i]) =>
                /\ last'.kind = "forward"
                /\ last'.slot = i
                /\ last'.training
                /\ mods[i].training]_vars

\* Block 1 was trained, then called in inference mode; block 2 was never
\* called in training mode.
C9_Witness ==
    /\ pc = "session"
    /\ last.kind = "forward"
    /\ last.slot = 1
    /\ ~last.training
    /\ mods[1].kind = "Encoder"
    /\ mods[1].conv2.bn.running # 0
    /\ mods[2].bn.running = 0

====
